---- MODULE Spec2Model ----
(***************************************************************************)
(* Model of the msstore_winrt native bridge (msstore_winrt.cpp / .h).      *)
(*                                                                         *)
(* Every caller thread repeatedly calls one of the five exported entry     *)
(* points.  The store platform, the foreground-window lookup and the       *)
(* shared COM task allocator are the environment: each of their outcomes   *)
(* is a nondeterministic choice.  A call is split only where the code      *)
(* waits for the asynchronous operation.                                   *)
(***************************************************************************)
EXTENDS Integers, Sequences, FiniteSets, TLC

\* ------------------------------------------------------------------ bounds
NumThreads == 2
MaxBuffers == 2
MaxQueue   == 1

Threads == 1..NumThreads
Addrs   == 1..MaxBuffers

\* ------------------------------------------------------- values of the code
NULL    == 0
FAILED  == 0 - 1
NoRet   == 0 - 2          \* no value returned (call in flight, void, no call)
HWND    == 1              \* some non-null foreground window handle
NoLookup == 0 - 1         \* ownerWindow before GetForegroundWindow is called

MsgNoWindow    == "No foreground window handle available for Store UI."
MsgLicenseNull == "StoreAppLicense is null."
MsgStoreIdBad  == "Store ID is null or empty."
MsgPurchaseNull == "StorePurchaseResult is null."
MsgRateNull    == "StoreRateAndReviewResult is null."
MsgUnknown     == "Unknown native error."

\* messages carried by failures the platform raises
HresultMsg     == "The store is unavailable."
ChangedModeMsg == "Cannot change thread mode after it is set."
CanceledMsg    == "The operation was canceled."
StdMsg         == "bad allocation"

\* a failure thrown in the try block: winrt::hresult_error, std::exception or
\* anything else
Failures ==
    { [kind |-> "hresult", msg |-> HresultMsg],
      [kind |-> "std",     msg |-> StdMsg],
      [kind |-> "other",   msg |-> ""] }
ChangedMode == [kind |-> "hresult", msg |-> ChangedModeMsg]
Canceled    == [kind |-> "hresult", msg |-> CanceledMsg]
NoFailure   == [kind |-> "none", msg |-> ""]

\* storeId arguments of request_purchase: nullptr, "" and a real id
StoreIds ==
    { [isNull |-> TRUE,  s |-> ""],
      [isNull |-> FALSE, s |-> ""],
      [isNull |-> FALSE, s |-> "9NBLGGH4R315"] }
NoStoreId == [isNull |-> TRUE, s |-> ""]
NoArg == [storeId |-> NoStoreId, ptr |-> NULL]

PurchaseStatuses ==
    {"Succeeded", "AlreadyPurchased", "NotPurchased", "NetworkError",
     "ServerError", "OtherPurchaseStatus"}
RateStatuses ==
    {"Succeeded", "CanceledByUser", "NetworkError", "Error", "OtherRateStatus"}
JsonPayloads == {"{\"isActive\":true}"}
NullResult == "<null>"

NoOperation == [status |-> "None", result |-> NullResult]

VARIABLES
    pc,           \* per thread: where the thread is inside a call
    op,           \* per thread: entry point of the current / last call
    arg,          \* per thread: arguments of the current / last call
    ret,          \* per thread: value returned by the last call
    g_lastError,  \* per thread: the thread_local error string
    apartment,    \* per thread: COM apartment of the thread
    trace,        \* per thread: platform calls made by the current/last call
    ownerWindow,  \* per thread: what GetForegroundWindow gave the call
    operation,    \* per thread: the IAsyncOperation of the current/last call
    raised,       \* per thread: the failure thrown in the current/last call
    queue,        \* per thread: messages pending in the thread's queue
    heap          \* CoTaskMem blocks: live address -> content

vars == <<pc, op, arg, ret, g_lastError, apartment, trace, ownerWindow,
          operation, raised, queue, heap>>

\* ------------------------------------------------------------ error store
\* static thread_local std::string g_lastError: a write reaches the slot of
\* the writing thread only
WriteSlotGlobal(slots, t, msg) == [u \in Threads |-> msg]
WriteSlot(slots, t, msg) == [slots EXCEPT ![t] = msg]

\* g_lastError.clear()
ClearErrorForgotten(slots, t) == slots
ClearError(slots, t) == WriteSlot(slots, t, "")

\* the three catch clauses of every entry point
CatchMessageGeneric(f) == MsgUnknown
CatchMessage(f) ==
    IF f.kind = "hresult" THEN f.msg
    ELSE IF f.kind = "std" THEN f.msg
    ELSE MsgUnknown

\* ------------------------------------------------------------ status maps
map_purchase_status_shifted(status) ==
    CASE status = "Succeeded"        -> 0
      [] status = "AlreadyPurchased" -> 1
      [] status = "NotPurchased"     -> 2
      [] status = "NetworkError"     -> 3
      [] status = "ServerError"      -> 4
      [] OTHER                       -> FAILED
map_purchase_status(status) ==
    CASE status = "Succeeded"        -> 0
      [] status = "AlreadyPurchased" -> 1
      [] status = "NotPurchased"     -> 2
      [] status = "NetworkError"     -> 3
      [] status = "ServerError"      -> 4
      [] OTHER                       -> 5

map_rate_and_review_status(status) ==
    CASE status = "Succeeded"      -> 0
      [] status = "CanceledByUser" -> 1
      [] status = "NetworkError"   -> 2
      [] status = "Error"          -> 3
      [] OTHER                     -> 4

\* ---------------------------------------------------------------- allocator
\* ::CoTaskMemAlloc: a block not in use, or nullptr when the allocation fails
CoTaskMemAlloc == {NULL} \cup (Addrs \ DOMAIN heap)

\* dup_string: allocate, give up on nullptr, else copy the text
dup_string(value, buffer) ==
    /\ buffer \in CoTaskMemAlloc
    /\ IF buffer = NULL
       THEN heap' = heap
       ELSE heap' = [b \in DOMAIN heap \cup {buffer} |->
                        IF b = buffer THEN value ELSE heap[b]]

\* ::CoTaskMemFree
CoTaskMemFree(ptr) == heap' = [b \in DOMAIN heap \ {ptr} |-> heap[b]]

\* ------------------------------------------------------------------- Init
Init ==
    /\ pc = [t \in Threads |-> "idle"]
    /\ op = [t \in Threads |-> "none"]
    /\ arg = [t \in Threads |-> NoArg]
    /\ ret = [t \in Threads |-> NoRet]
    /\ g_lastError = [t \in Threads |-> ""]
    /\ apartment \in [Threads -> {"none", "MTA"}]
    /\ trace = [t \in Threads |-> <<>>]
    /\ ownerWindow = [t \in Threads |-> NoLookup]
    /\ operation = [t \in Threads |-> NoOperation]
    /\ raised = [t \in Threads |-> NoFailure]
    /\ queue = [t \in Threads |-> 0]
    /\ heap = <<>>

\* ------------------------------------------------- platform calls in a try
\* The outcomes of making the platform calls `steps` in order inside the try
\* block: all return, or one of them throws and the later ones are not made.
\* init_apartment(single_threaded) throws RPC_E_CHANGED_MODE on a thread that
\* is already in the multi-threaded apartment and succeeds otherwise, also
\* when repeated; every other call may throw any failure.
TryPlatform(t, steps) ==
    IF Len(steps) > 0 /\ steps[1] = "init_apartment" /\ apartment[t] = "MTA"
    THEN { [thrown |-> TRUE, steps |-> <<"init_apartment">>, failure |-> ChangedMode] }
    ELSE { [thrown |-> FALSE, steps |-> steps, failure |-> NoFailure] }
         \cup { [thrown |-> TRUE, steps |-> SubSeq(steps, 1, i), failure |-> f] :
                  i \in {j \in 1..Len(steps) : steps[j] # "init_apartment"},
                  f \in Failures }

\* the apartment of thread t after a call that made the platform calls `steps`
ApartmentAfter(t, steps) ==
    IF Len(steps) > 0 /\ steps[1] = "init_apartment" /\ apartment[t] # "MTA"
    THEN [apartment EXCEPT ![t] = "STA"]
    ELSE apartment

\* the start of a call of entry point o with arguments a
Enter(t, o, a) ==
    /\ pc[t] = "idle"
    /\ op' = [op EXCEPT ![t] = o]
    /\ arg' = [arg EXCEPT ![t] = a]

\* a catch clause: record the message, fall out of the try, return the sentinel
Caught(t, f, sentinel) ==
    /\ g_lastError' = WriteSlot(g_lastError, t, CatchMessage(f))
    /\ raised' = [raised EXCEPT ![t] = f]
    /\ ret' = [ret EXCEPT ![t] = sentinel]
    /\ pc' = [pc EXCEPT ![t] = "idle"]

\* g_lastError = msg; return sentinel;
FailKeepsSlot(t, msg, sentinel) ==
    /\ UNCHANGED g_lastError
    /\ raised' = [raised EXCEPT ![t] = NoFailure]
    /\ ret' = [ret EXCEPT ![t] = sentinel]
    /\ pc' = [pc EXCEPT ![t] = "idle"]
Fail(t, msg, sentinel) ==
    /\ g_lastError' = WriteSlot(g_lastError, t, msg)
    /\ raised' = [raised EXCEPT ![t] = NoFailure]
    /\ ret' = [ret EXCEPT ![t] = sentinel]
    /\ pc' = [pc EXCEPT ![t] = "idle"]

\* g_lastError.clear(); return value;
Succeed(t, value) ==
    /\ g_lastError' = ClearError(g_lastError, t)
    /\ raised' = [raised EXCEPT ![t] = NoFailure]
    /\ ret' = [ret EXCEPT ![t] = value]
    /\ pc' = [pc EXCEPT ![t] = "idle"]

\* the Async call returned its operation, which the call now waits for
Dispatched(t, where) ==
    /\ operation' = [operation EXCEPT ![t] = [status |-> "Started", result |-> NullResult]]
    /\ raised' = [raised EXCEPT ![t] = NoFailure]
    /\ ret' = [ret EXCEPT ![t] = NoRet]
    /\ pc' = [pc EXCEPT ![t] = where]
    /\ UNCHANGED g_lastError

\* the call ends without an operation
NotDispatched(t) == operation' = [operation EXCEPT ![t] = NoOperation]

\* what .get() / GetResults() throws for an operation that ended in Error or
\* Canceled
ResultFailure(o) == IF o.status = "Canceled" THEN Canceled
                    ELSE [kind |-> "hresult", msg |-> o.result]

\* ------------------------------------------------------- get_license_json
\* msstore_winrt_get_license_json up to the blocking .get()
msstore_winrt_get_license_json_context_first(t) ==
    /\ Enter(t, "get_license_json", NoArg)
    /\ \E o \in TryPlatform(t, <<"GetDefault", "init_apartment", "GetAppLicenseAsync">>) :
         /\ trace' = [trace EXCEPT ![t] = o.steps]
         /\ apartment' = ApartmentAfter(t, o.steps)
         /\ IF o.thrown
            THEN Caught(t, o.failure, NULL) /\ NotDispatched(t)
            ELSE Dispatched(t, "license_get")
    /\ ownerWindow' = [ownerWindow EXCEPT ![t] = NoLookup]
    /\ UNCHANGED <<queue, heap>>
msstore_winrt_get_license_json(t) ==
    /\ Enter(t, "get_license_json", NoArg)
    /\ \E o \in TryPlatform(t, <<"init_apartment", "GetDefault", "GetAppLicenseAsync">>) :
         /\ trace' = [trace EXCEPT ![t] = o.steps]
         /\ apartment' = ApartmentAfter(t, o.steps)
         /\ IF o.thrown
            THEN Caught(t, o.failure, NULL) /\ NotDispatched(t)
            ELSE Dispatched(t, "license_get")
    /\ ownerWindow' = [ownerWindow EXCEPT ![t] = NoLookup]
    /\ UNCHANGED <<queue, heap>>

\* msstore_winrt_get_license_json from the return of .get() to its return
get_license_json_result(t) ==
    /\ pc[t] = "license_get"
    /\ operation[t].status # "Started"
    /\ IF operation[t].status # "Completed"
       THEN Caught(t, ResultFailure(operation[t]), NULL) /\ UNCHANGED <<trace, heap>>
       ELSE IF operation[t].result = NullResult
       THEN Fail(t, MsgLicenseNull, NULL) /\ UNCHANGED <<trace, heap>>
       ELSE /\ trace' = [trace EXCEPT ![t] = Append(@, "ExtendedJsonData")]
            /\ \/ \E f \in Failures : Caught(t, f, NULL) /\ UNCHANGED heap
               \/ \E buffer \in CoTaskMemAlloc :
                    /\ dup_string(operation[t].result, buffer)
                    /\ Succeed(t, buffer)
    /\ UNCHANGED <<op, arg, apartment, ownerWindow, operation, queue>>

\* --------------------------------------------------------- get_last_error
msstore_winrt_get_last_error_clearing(t) ==
    /\ Enter(t, "get_last_error", NoArg)
    /\ \E buffer \in CoTaskMemAlloc :
         /\ dup_string(g_lastError[t], buffer)
         /\ ret' = [ret EXCEPT ![t] = buffer]
    /\ g_lastError' = ClearError(g_lastError, t)
    /\ trace' = [trace EXCEPT ![t] = <<>>]
    /\ ownerWindow' = [ownerWindow EXCEPT ![t] = NoLookup]
    /\ raised' = [raised EXCEPT ![t] = NoFailure]
    /\ NotDispatched(t)
    /\ UNCHANGED <<pc, apartment, queue>>
msstore_winrt_get_last_error_static(t) ==
    /\ Enter(t, "get_last_error", NoArg)
    /\ \E buffer \in Addrs :
         /\ heap' = [b \in DOMAIN heap \cup {buffer} |->
                        IF b = buffer THEN g_lastError[t] ELSE heap[b]]
         /\ ret' = [ret EXCEPT ![t] = buffer]
    /\ trace' = [trace EXCEPT ![t] = <<>>]
    /\ ownerWindow' = [ownerWindow EXCEPT ![t] = NoLookup]
    /\ raised' = [raised EXCEPT ![t] = NoFailure]
    /\ NotDispatched(t)
    /\ UNCHANGED <<pc, g_lastError, apartment, queue>>
msstore_winrt_get_last_error(t) ==
    /\ Enter(t, "get_last_error", NoArg)
    /\ \E buffer \in CoTaskMemAlloc :
         /\ dup_string(g_lastError[t], buffer)
         /\ ret' = [ret EXCEPT ![t] = buffer]
    /\ trace' = [trace EXCEPT ![t] = <<>>]
    /\ ownerWindow' = [ownerWindow EXCEPT ![t] = NoLookup]
    /\ raised' = [raised EXCEPT ![t] = NoFailure]
    /\ NotDispatched(t)
    /\ UNCHANGED <<pc, g_lastError, apartment, queue>>

\* ------------------------------------------------------- owner window
\* ::GetForegroundWindow(): the foreground window, or nullptr when there is none
GetForegroundWindow == {NULL, HWND}

\* the test `ownerWindow == nullptr` of initialize_store_ui_owner
OwnerMissingIgnored(window) == FALSE
OwnerMissing(window) == window = NULL

\* the test `storeId == nullptr || *storeId == '\0'` of request_purchase
StoreIdInvalidNullOnly(storeId) == storeId.isNull
StoreIdInvalid(storeId) == storeId.isNull \/ storeId.s = ""

\* The part of a UI-bearing entry point from init_apartment to the dispatch
\* of its operation: init_apartment, StoreContext::GetDefault,
\* initialize_store_ui_owner (GetForegroundWindow, then as<IInitializeWithWindow>
\* and Initialize, whose HRESULT is not looked at), then the Async call.
DispatchWithOwner(t, asyncCall, where) ==
    \E o \in TryPlatform(t, <<"init_apartment", "GetDefault">>) :
      /\ apartment' = ApartmentAfter(t, o.steps)
      /\ IF o.thrown
         THEN /\ trace' = [trace EXCEPT ![t] = o.steps]
              /\ ownerWindow' = [ownerWindow EXCEPT ![t] = NoLookup]
              /\ Caught(t, o.failure, FAILED)
              /\ NotDispatched(t)
         ELSE \E window \in GetForegroundWindow :
              /\ ownerWindow' = [ownerWindow EXCEPT ![t] = window]
              /\ IF OwnerMissing(window)
                 THEN /\ trace' = [trace EXCEPT ![t] = o.steps \o <<"GetForegroundWindow">>]
                      /\ Fail(t, MsgNoWindow, FAILED)
                      /\ NotDispatched(t)
                 ELSE \E p \in TryPlatform(t, <<"Initialize", asyncCall>>) :
                      /\ trace' = [trace EXCEPT ![t] =
                                      o.steps \o <<"GetForegroundWindow">> \o p.steps]
                      /\ IF p.thrown
                         THEN Caught(t, p.failure, FAILED) /\ NotDispatched(t)
                         ELSE Dispatched(t, where)

\* ------------------------------------------------------- request_purchase
\* msstore_winrt_request_purchase up to the blocking .get()
msstore_winrt_request_purchase(t, storeId) ==
    /\ Enter(t, "request_purchase", [storeId |-> storeId, ptr |-> NULL])
    /\ IF StoreIdInvalid(storeId)
       THEN /\ Fail(t, MsgStoreIdBad, FAILED)
            /\ trace' = [trace EXCEPT ![t] = <<>>]
            /\ ownerWindow' = [ownerWindow EXCEPT ![t] = NoLookup]
            /\ NotDispatched(t)
            /\ UNCHANGED apartment
       ELSE DispatchWithOwner(t, "RequestPurchaseAsync", "purchase_get")
    /\ UNCHANGED <<queue, heap>>

\* msstore_winrt_request_purchase from the return of .get() to its return
request_purchase_result_unawaited(t) ==
    /\ pc[t] = "purchase_get"
    /\ IF operation[t].status # "Completed"
       THEN Caught(t, ResultFailure(operation[t]), FAILED) /\ UNCHANGED trace
       ELSE IF operation[t].result = NullResult
       THEN Fail(t, MsgPurchaseNull, FAILED) /\ UNCHANGED trace
       ELSE /\ trace' = [trace EXCEPT ![t] = Append(@, "Status")]
            /\ \/ \E f \in Failures : Caught(t, f, FAILED)
               \/ Succeed(t, map_purchase_status(operation[t].result))
    /\ UNCHANGED <<op, arg, apartment, ownerWindow, operation, queue, heap>>
request_purchase_result(t) ==
    /\ pc[t] = "purchase_get"
    /\ operation[t].status # "Started"
    /\ IF operation[t].status # "Completed"
       THEN Caught(t, ResultFailure(operation[t]), FAILED) /\ UNCHANGED trace
       ELSE IF operation[t].result = NullResult
       THEN Fail(t, MsgPurchaseNull, FAILED) /\ UNCHANGED trace
       ELSE /\ trace' = [trace EXCEPT ![t] = Append(@, "Status")]
            /\ \/ \E f \in Failures : Caught(t, f, FAILED)
               \/ Succeed(t, map_purchase_status(operation[t].result))
    /\ UNCHANGED <<op, arg, apartment, ownerWindow, operation, queue, heap>>

\* ------------------------------------------------ request_rate_and_review
\* msstore_winrt_request_rate_and_review up to the call of
\* wait_for_rate_and_review_result
msstore_winrt_request_rate_and_review(t) ==
    /\ Enter(t, "request_rate_and_review", NoArg)
    /\ DispatchWithOwner(t, "RequestRateAndReviewAppAsync", "wait_status")
    /\ UNCHANGED <<queue, heap>>

\* wait_for_rate_and_review_result: the loop test finds the operation Started
wait_status_started(t) ==
    /\ pc[t] = "wait_status"
    /\ operation[t].status = "Started"
    /\ pc' = [pc EXCEPT ![t] = "wait_peek"]
    /\ UNCHANGED <<op, arg, ret, g_lastError, apartment, trace, ownerWindow,
                   operation, raised, queue, heap>>

\* wait_for_rate_and_review_result: one round of the PeekMessageW loop, which
\* removes and dispatches a pending message or ends when there is none
wait_peek_message_once(t) ==
    /\ pc[t] = "wait_peek"
    /\ pc' = [pc EXCEPT ![t] = "wait_msgwait"]
    /\ queue' = [queue EXCEPT ![t] = IF @ > 0 THEN @ - 1 ELSE @]
    /\ UNCHANGED <<op, arg, ret, g_lastError, apartment, trace, ownerWindow,
                   operation, raised, heap>>
wait_peek_message(t) ==
    /\ pc[t] = "wait_peek"
    /\ IF queue[t] > 0
       THEN queue' = [queue EXCEPT ![t] = @ - 1] /\ UNCHANGED pc
       ELSE pc' = [pc EXCEPT ![t] = "wait_msgwait"] /\ UNCHANGED queue
    /\ UNCHANGED <<op, arg, ret, g_lastError, apartment, trace, ownerWindow,
                   operation, raised, heap>>

\* wait_for_rate_and_review_result: MsgWaitForMultipleObjectsEx returns, on
\* input or after its 50 ms
wait_msgwait_forever(t) ==
    /\ pc[t] = "wait_msgwait"
    /\ UNCHANGED vars
wait_msgwait_return(t) ==
    /\ pc[t] = "wait_msgwait"
    /\ pc' = [pc EXCEPT ![t] = "wait_status"]
    /\ UNCHANGED <<op, arg, ret, g_lastError, apartment, trace, ownerWindow,
                   operation, raised, queue, heap>>

\* the loop test finds the operation no longer Started: GetResults, then
\* msstore_winrt_request_rate_and_review to its return
request_rate_and_review_result_retrying(t) ==
    /\ pc[t] = "wait_status"
    /\ operation[t].status # "Started"
    /\ IF operation[t].status # "Completed" \/ operation[t].result = NullResult
       THEN /\ trace' = [trace EXCEPT ![t] = Append(@, "RequestRateAndReviewAppAsync")]
            /\ Dispatched(t, "wait_status")
            /\ UNCHANGED <<op, arg, apartment, ownerWindow, queue, heap>>
       ELSE /\ trace' = [trace EXCEPT ![t] = Append(@, "Status")]
            /\ \/ \E f \in Failures : Caught(t, f, FAILED)
               \/ Succeed(t, map_rate_and_review_status(operation[t].result))
            /\ UNCHANGED <<op, arg, apartment, ownerWindow, operation, queue, heap>>
request_rate_and_review_result_cancel_as_status(t) ==
    /\ pc[t] = "wait_status"
    /\ operation[t].status # "Started"
    /\ IF operation[t].status = "Canceled"
       THEN Succeed(t, map_rate_and_review_status("CanceledByUser")) /\ UNCHANGED trace
       ELSE IF operation[t].status # "Completed"
       THEN Caught(t, ResultFailure(operation[t]), FAILED) /\ UNCHANGED trace
       ELSE IF operation[t].result = NullResult
       THEN Fail(t, MsgRateNull, FAILED) /\ UNCHANGED trace
       ELSE /\ trace' = [trace EXCEPT ![t] = Append(@, "Status")]
            /\ \/ \E f \in Failures : Caught(t, f, FAILED)
               \/ Succeed(t, map_rate_and_review_status(operation[t].result))
    /\ UNCHANGED <<op, arg, apartment, ownerWindow, operation, queue, heap>>
request_rate_and_review_result(t) ==
    /\ pc[t] = "wait_status"
    /\ operation[t].status # "Started"
    /\ IF operation[t].status # "Completed"
       THEN Caught(t, ResultFailure(operation[t]), FAILED) /\ UNCHANGED trace
       ELSE IF operation[t].result = NullResult
       THEN Fail(t, MsgRateNull, FAILED) /\ UNCHANGED trace
       ELSE /\ trace' = [trace EXCEPT ![t] = Append(@, "Status")]
            /\ \/ \E f \in Failures : Caught(t, f, FAILED)
               \/ Succeed(t, map_rate_and_review_status(operation[t].result))
    /\ UNCHANGED <<op, arg, apartment, ownerWindow, operation, queue, heap>>

\* ------------------------------------------------------------------- free
\* msstore_winrt_free: the caller passes nullptr or a block it owns
msstore_winrt_free_clearing(t, ptr) ==
    /\ Enter(t, "free", [storeId |-> NoStoreId, ptr |-> ptr])
    /\ ret' = [ret EXCEPT ![t] = NoRet]
    /\ IF ptr # NULL THEN CoTaskMemFree(ptr) ELSE heap' = heap
    /\ g_lastError' = ClearError(g_lastError, t)
    /\ trace' = [trace EXCEPT ![t] = <<>>]
    /\ ownerWindow' = [ownerWindow EXCEPT ![t] = NoLookup]
    /\ raised' = [raised EXCEPT ![t] = NoFailure]
    /\ NotDispatched(t)
    /\ UNCHANGED <<pc, apartment, queue>>
msstore_winrt_free(t, ptr) ==
    /\ Enter(t, "free", [storeId |-> NoStoreId, ptr |-> ptr])
    /\ ret' = [ret EXCEPT ![t] = NoRet]
    /\ IF ptr # NULL THEN CoTaskMemFree(ptr) ELSE heap' = heap
    /\ trace' = [trace EXCEPT ![t] = <<>>]
    /\ ownerWindow' = [ownerWindow EXCEPT ![t] = NoLookup]
    /\ raised' = [raised EXCEPT ![t] = NoFailure]
    /\ NotDispatched(t)
    /\ UNCHANGED <<pc, g_lastError, apartment, queue>>

\* ------------------------------------------------------------ environment
\* the results an operation of entry point `o` can complete with
ResultsOf(o) ==
    {NullResult} \cup
    (IF o = "get_license_json" THEN JsonPayloads
     ELSE IF o = "request_purchase" THEN PurchaseStatuses
     ELSE RateStatuses)

\* the platform finishes the operation of thread t: completed with a result
\* object (or none), failed, or canceled
OperationFinishes(t) ==
    /\ operation[t].status = "Started"
    /\ \/ \E r \in ResultsOf(op[t]) :
            operation' = [operation EXCEPT ![t] = [status |-> "Completed", result |-> r]]
       \/ operation' = [operation EXCEPT ![t] = [status |-> "Error", result |-> HresultMsg]]
       \/ operation' = [operation EXCEPT ![t] = [status |-> "Canceled", result |-> NullResult]]
    /\ UNCHANGED <<pc, op, arg, ret, g_lastError, apartment, trace, ownerWindow,
                   raised, queue, heap>>

\* a message is posted to the queue of a thread that is inside a store call
MessagePosted(t) ==
    /\ pc[t] # "idle"
    /\ queue[t] < MaxQueue
    /\ queue' = [queue EXCEPT ![t] = @ + 1]
    /\ UNCHANGED <<pc, op, arg, ret, g_lastError, apartment, trace, ownerWindow,
                   operation, raised, heap>>

\* ------------------------------------------------------------------- Next
\* everything thread t and its environment can do
ThreadStep(t) ==
    \/ msstore_winrt_get_license_json(t)
    \/ get_license_json_result(t)
    \/ msstore_winrt_get_last_error(t)
    \/ \E storeId \in StoreIds : msstore_winrt_request_purchase(t, storeId)
    \/ request_purchase_result(t)
    \/ msstore_winrt_request_rate_and_review(t)
    \/ wait_status_started(t)
    \/ wait_peek_message(t)
    \/ wait_msgwait_return(t)
    \/ request_rate_and_review_result(t)
    \/ \E ptr \in {NULL} \cup DOMAIN heap : msstore_winrt_free(t, ptr)
    \/ OperationFinishes(t)
    \/ MessagePosted(t)

\* Spec: one caller thread makes every kind of call
Caller == CHOOSE t \in Threads : \A u \in Threads : t <= u

InitCaller == Init /\ \A t \in Threads \ {Caller} : apartment[t] = "none"

Next == ThreadStep(Caller)

Spec == InitCaller /\ [][Next]_vars

\* SpecThreads: all threads call concurrently; the calls are license fetches
\* (which fail at every step of a store operation), reads of the last error
\* and frees
ConcurrentStep(t) ==
    \/ msstore_winrt_get_license_json(t)
    \/ get_license_json_result(t)
    \/ msstore_winrt_get_last_error(t)
    \/ \E ptr \in {NULL} \cup DOMAIN heap : msstore_winrt_free(t, ptr)
    \/ OperationFinishes(t)

NextThreads == \E t \in Threads : ConcurrentStep(t)

SpecThreads == Init /\ [][NextThreads]_vars

\* SpecPump: the caller thread makes rating calls only, and runs on: a step of
\* the pumping wait that stays possible is eventually taken.  Nothing is
\* assumed of the platform (the operation may stay Started) or of the senders
\* of messages.
PumpStep(t) ==
    \/ msstore_winrt_request_rate_and_review(t)
    \/ wait_status_started(t)
    \/ wait_peek_message(t)
    \/ wait_msgwait_return(t)
    \/ request_rate_and_review_result(t)
    \/ OperationFinishes(t)
    \/ MessagePosted(t)

NextPump == PumpStep(Caller)

PumpFairness ==
    /\ WF_vars(wait_status_started(Caller))
    /\ WF_vars(wait_peek_message(Caller))
    /\ WF_vars(wait_msgwait_return(Caller))
    /\ WF_vars(request_rate_and_review_result(Caller))

SpecPump == InitCaller /\ [][NextPump]_vars /\ PumpFairness

\* ================================================================= claims
StoreOps == {"get_license_json", "request_purchase", "request_rate_and_review"}

\* the last call of thread t was a call of o and it has returned
Returned(t, o) == pc[t] = "idle" /\ op[t] = o

\* the last call of thread t has returned the failure sentinel of its entry point
ReturnedSentinel(t) ==
    \/ Returned(t, "get_license_json") /\ ret[t] = NULL
    \/ Returned(t, "request_purchase") /\ ret[t] = FAILED
    \/ Returned(t, "request_rate_and_review") /\ ret[t] = FAILED

\* the last call of thread t has returned a value that is not the sentinel
ReturnedValue(t) ==
    \/ Returned(t, "get_license_json") /\ ret[t] \in Addrs
    \/ Returned(t, "request_purchase") /\ ret[t] \in 0..5
    \/ Returned(t, "request_rate_and_review") /\ ret[t] \in 0..4

\* C1: whenever a store operation has returned its failure sentinel (a null
\* buffer from get_license_json, -1 from request_purchase or
\* request_rate_and_review), the error slot of the calling thread is not empty.
C1_FailureIsRecorded ==
    \A t \in Threads : ReturnedSentinel(t) => g_lastError[t] # ""

\* C2: whenever a store operation has returned a value that is not its
\* sentinel (a buffer, a purchase code 0..5, a rating code 0..4), the error
\* slot of the calling thread is empty, whatever an earlier call left in it.
C2_SuccessClearsError ==
    \A t \in Threads : ReturnedValue(t) => g_lastError[t] = ""

\* C2 witness: a purchase has returned 1 (AlreadyPurchased) with an empty slot
\* while a buffer still holds the message of an earlier failed call.
C2_Witness ==
    \E t \in Threads :
       /\ Returned(t, "request_purchase") /\ ret[t] = 1
       /\ operation[t].result = "AlreadyPurchased"
       /\ g_lastError[t] = ""
       /\ \E b \in DOMAIN heap : heap[b] = MsgStoreIdBad

\* C3: whenever get_last_error has returned, it has returned a buffer (never
\* null), and that buffer is live and holds the thread's error slot value.
C3_LastErrorNeverNull ==
    \A t \in Threads :
       Returned(t, "get_last_error") =>
          /\ ret[t] # NULL
          /\ ret[t] \in DOMAIN heap
          /\ heap[ret[t]] = g_lastError[t]

\* C4: whenever request_purchase has returned from a call with a null or an
\* empty store id, it has returned -1, the error slot holds the invalid-input
\* message, and the call has made no platform call, looked up no window and
\* has no operation.
C4_InvalidStoreIdFailsFirst ==
    \A t \in Threads :
       Returned(t, "request_purchase")
       /\ (arg[t].storeId.isNull \/ arg[t].storeId.s = "") =>
          /\ ret[t] = FAILED
          /\ g_lastError[t] = MsgStoreIdBad
          /\ trace[t] = <<>>
          /\ ownerWindow[t] = NoLookup
          /\ operation[t] = NoOperation

\* C4 witness: request_purchase("") has returned -1 on a thread whose earlier
\* calls had reached the platform (its apartment is initialized).
C4_Witness ==
    \E t \in Threads :
       /\ Returned(t, "request_purchase")
       /\ ~arg[t].storeId.isNull /\ arg[t].storeId.s = ""
       /\ ret[t] = FAILED
       /\ apartment[t] = "STA"

\* C5: in every step, the error slot of a thread changes only in a step of
\* one of that thread's own calls, and a get_last_error call of a thread
\* returns the value of that thread's own slot.
C5_SlotIsThreadLocal ==
    [][\A t \in Threads :
         /\ g_lastError'[t] # g_lastError[t] =>
               msstore_winrt_get_license_json(t) \/ get_license_json_result(t)
         /\ msstore_winrt_get_last_error(t) /\ ret'[t] # NULL =>
               heap'[ret'[t]] = g_lastError[t]]_vars

\* C5 witness: one thread has read its own message while the other thread,
\* whose call failed with a different message, holds that different message.
C5_Witness ==
    \E t, u \in Threads :
       /\ t # u
       /\ Returned(t, "get_last_error") /\ ret[t] \in DOMAIN heap
       /\ heap[ret[t]] = g_lastError[t]
       /\ g_lastError[t] = MsgLicenseNull
       /\ Returned(u, "get_license_json") /\ g_lastError[u] = HresultMsg

\* the status code tables of msstore_winrt.h
PurchaseCodes ==
    [s \in PurchaseStatuses |->
        CASE s = "Succeeded" -> 0 [] s = "AlreadyPurchased" -> 1
          [] s = "NotPurchased" -> 2 [] s = "NetworkError" -> 3
          [] s = "ServerError" -> 4 [] OTHER -> 5]
RateCodes ==
    [s \in RateStatuses |->
        CASE s = "Succeeded" -> 0 [] s = "CanceledByUser" -> 1
          [] s = "NetworkError" -> 2 [] s = "Error" -> 3 [] OTHER -> 4]

\* C6: a purchase or rating call that has returned after its operation
\* completed with a result object has returned the table's code of the
\* result's status, unless reading the result threw (then -1 comes from the
\* catch clause, with its message); request_purchase returns only -1..5 and
\* request_rate_and_review only -1..4.
C6_StatusTable ==
    \A t \in Threads :
       /\ Returned(t, "request_purchase") => ret[t] \in (0..5) \cup {FAILED}
       /\ Returned(t, "request_rate_and_review") => ret[t] \in (0..4) \cup {FAILED}
       /\ pc[t] = "idle" /\ op[t] \in {"request_purchase", "request_rate_and_review"}
          /\ operation[t].status = "Completed" /\ operation[t].result # NullResult =>
             IF raised[t] = NoFailure
             THEN ret[t] = (IF op[t] = "request_purchase"
                            THEN PurchaseCodes[operation[t].result]
                            ELSE RateCodes[operation[t].result])
             ELSE ret[t] = FAILED

\* C6 witness: a purchase whose operation completed with a status outside the
\* named five has returned 5, and so did not turn into -1.
C6_Witness ==
    \E t \in Threads :
       /\ Returned(t, "request_purchase")
       /\ operation[t].status = "Completed"
       /\ operation[t].result = "OtherPurchaseStatus"
       /\ ret[t] = 5

\* C7: a store operation in which a failure was thrown has returned its
\* sentinel, and the error slot holds the failure's own message for a
\* platform error and for a runtime error, and the fixed message otherwise.
C7_FailuresAreAbsorbed ==
    \A t \in Threads :
       raised[t] # NoFailure =>
          /\ pc[t] = "idle" /\ op[t] \in StoreOps
          /\ ReturnedSentinel(t)
          /\ raised[t].kind \in {"hresult", "std"} => g_lastError[t] = raised[t].msg
          /\ raised[t].kind = "other" => g_lastError[t] = MsgUnknown

\* C7 witness: a license fetch whose operation failed has returned null with
\* the platform's message in the slot.
C7_Witness ==
    \E t \in Threads :
       /\ Returned(t, "get_license_json") /\ ret[t] = NULL
       /\ operation[t].status = "Error"
       /\ raised[t].kind = "hresult"
       /\ g_lastError[t] = HresultMsg

\* the calls into the platform API among the steps of a call
PlatformCalls(steps) == SelectSeq(steps, LAMBDA x : x # "GetForegroundWindow")

\* C8 as stated: a purchase or rating call that found no foreground window
\* has returned -1 with the no-window message, has made no platform call at
\* all and has dispatched no operation.
C8_NoWindowBeforeAnyPlatformCall ==
    \A t \in Threads :
       pc[t] = "idle" /\ ownerWindow[t] = NULL =>
          /\ ret[t] = FAILED
          /\ g_lastError[t] = MsgNoWindow
          /\ PlatformCalls(trace[t]) = <<>>
          /\ operation[t] = NoOperation

\* C8 as amended: a purchase or rating call that found no foreground window
\* has returned -1 with the no-window message, has not bound an owner window
\* and has dispatched no operation; the platform calls it made are the
\* apartment initialization and the fetch of the store context, both before
\* the window lookup.
C8_NoWindowBeforeBindAndDispatch ==
    \A t \in Threads :
       pc[t] = "idle" /\ ownerWindow[t] = NULL =>
          /\ op[t] \in {"request_purchase", "request_rate_and_review"}
          /\ ret[t] = FAILED
          /\ g_lastError[t] = MsgNoWindow
          /\ trace[t] = <<"init_apartment", "GetDefault", "GetForegroundWindow">>
          /\ operation[t] = NoOperation

\* C8 witness: a rating call has failed for want of a foreground window.
C8_Witness ==
    \E t \in Threads :
       /\ Returned(t, "request_rate_and_review")
       /\ ownerWindow[t] = NULL
       /\ ret[t] = FAILED

\* C9: a step in which an idle thread calls get_last_error or free leaves the
\* thread's error slot as it was, and a buffer that get_last_error returns is
\* a block that was not live and holds the slot's value.
C9_ReadKeepsSlot ==
    [][\A t \in Threads :
         pc[t] = "idle" /\ op'[t] \in {"get_last_error", "free"} =>
            /\ g_lastError'[t] = g_lastError[t]
            /\ op'[t] = "get_last_error" /\ ret'[t] # NULL =>
                  /\ ret'[t] \notin DOMAIN heap
                  /\ heap'[ret'[t]] = g_lastError[t]]_vars

\* C9 witness: two buffers returned by get_last_error are live, both hold the
\* message that is still in the slot.
C9_Witness ==
    \E t \in Threads : \E b1, b2 \in DOMAIN heap :
       /\ b1 # b2
       /\ Returned(t, "get_last_error") /\ ret[t] = b2
       /\ heap[b1] = g_lastError[t] /\ heap[b2] = g_lastError[t]
       /\ g_lastError[t] = MsgNoWindow

\* C10: a step in which an idle thread calls free(ptr) leaves all state as it
\* was when ptr is null, and otherwise removes exactly ptr from the live
\* blocks, keeps the content of the others, and changes no error slot.
C10_FreeFrame ==
    [][\A t \in Threads :
         pc[t] = "idle" /\ op'[t] = "free" =>
            /\ g_lastError' = g_lastError
            /\ apartment' = apartment /\ queue' = queue /\ pc' = pc
            /\ arg'[t].ptr = NULL => heap' = heap
            /\ arg'[t].ptr # NULL =>
                  /\ arg'[t].ptr \in DOMAIN heap
                  /\ DOMAIN heap' = DOMAIN heap \ {arg'[t].ptr}
                  /\ \A b \in DOMAIN heap' : heap'[b] = heap[b]]_vars

\* C10 witness: a live buffer has been freed while another buffer stays live
\* and the slot still holds a message.
C10_Witness ==
    \E t \in Threads :
       /\ Returned(t, "free")
       /\ arg[t].ptr # NULL /\ arg[t].ptr \notin DOMAIN heap
       /\ DOMAIN heap # {}
       /\ g_lastError[t] # ""

\* the positions of wait_for_rate_and_review_result
PumpLoop == {"wait_status", "wait_peek", "wait_msgwait"}

C12_OwnerBoundWaitPumps ==
    \A t \in Threads :
       ownerWindow[t] = HWND /\ operation[t].status = "Started" =>
          pc[t] \in PumpLoop

\* the positions at which a call waits for its operation
Awaiting == {"license_get", "purchase_get"} \cup PumpLoop

\* C13: a store operation does not return while its operation is Started, and
\* a thread has at most one operation in flight: after every step a Started
\* operation belongs to a call that is waiting for it, a call returns only
\* from a state in which its operation is no longer Started, and an operation
\* is started only by a call entered while the thread was idle.
C13_NoReturnWhileRunning ==
    [][\A t \in Threads :
         /\ operation'[t].status = "Started" => pc'[t] \in Awaiting
         /\ pc[t] \in Awaiting /\ pc'[t] = "idle" =>
               operation[t].status # "Started" /\ operation'[t] = operation[t]
         /\ operation[t].status # "Started" /\ operation'[t].status = "Started" =>
               pc[t] = "idle" /\ op'[t] \in StoreOps
      ]_vars

\* C13 witness: a purchase waits for its Started operation on a thread whose
\* earlier license fetch was dispatched, resolved and returned a buffer.
C13_Witness ==
    \E t \in Threads :
       /\ pc[t] = "purchase_get" /\ operation[t].status = "Started"
       /\ \E b \in DOMAIN heap : heap[b] \in JsonPayloads

\* the calls that dispatch an asynchronous operation
AsyncCalls == {"GetAppLicenseAsync", "RequestPurchaseAsync",
               "RequestRateAndReviewAppAsync"}

\* the number of Async calls the current or last call of thread t has made
Dispatches(t) == Len(SelectSeq(trace[t], LAMBDA x : x \in AsyncCalls))

\* C14: a store operation makes at most one Async call; it has an operation
\* exactly when its one Async call returned; a call that has returned without
\* an Async call failed before it (invalid store id, no foreground window, or
\* a failure thrown by an earlier platform call); and a call whose operation
\* failed, was canceled or completed without a result object has returned
\* after that one Async call.
C14_OneDispatchPerCall ==
    \A t \in Threads :
       op[t] \in StoreOps =>
          /\ Dispatches(t) <= 1
          /\ operation[t] # NoOperation => Dispatches(t) = 1
          /\ Dispatches(t) = 1 /\ operation[t] = NoOperation =>
                raised[t] # NoFailure /\ trace[t][Len(trace[t])] \in AsyncCalls
          /\ pc[t] = "idle" /\ Dispatches(t) = 0 =>
                \/ op[t] = "request_purchase" /\ StoreIdInvalid(arg[t].storeId)
                \/ ownerWindow[t] = NULL
                \/ raised[t] # NoFailure
          /\ pc[t] = "idle"
             /\ (\/ operation[t].status \in {"Error", "Canceled"}
                 \/ operation[t] = [status |-> "Completed", result |-> NullResult]) =>
                ret[t] \in {NULL, FAILED} /\ Dispatches(t) = 1

\* C14 witness: a rating call whose operation was canceled has returned -1
\* after its one Async call.
C14_Witness ==
    \E t \in Threads :
       /\ Returned(t, "request_rate_and_review")
       /\ operation[t].status = "Canceled"
       /\ Dispatches(t) = 1 /\ ret[t] = FAILED

\* the fixed message of entry point o for an operation without a result object
NullResultMsg(o) ==
    IF o = "get_license_json" THEN MsgLicenseNull
    ELSE IF o = "request_purchase" THEN MsgPurchaseNull
    ELSE MsgRateNull

PumpResolved == pc[Caller] \in PumpLoop /\ operation[Caller].status # "Started"

\* a rating call returns only from a state in which its operation is no
\* longer Started, so it never returns while the operation stays Started
PumpReturnsOnlyResolved ==
    [][pc[Caller] \in PumpLoop /\ pc'[Caller] = "idle" =>
          operation[Caller].status # "Started"]_vars

\* C16 as stated: once the rating operation has left Started the call
\* eventually returns, whatever messages keep arriving; and the call never
\* returns while the operation stays Started.
C16_ReturnsWhateverArrives ==
    /\ PumpResolved ~> (pc[Caller] = "idle")
    /\ PumpReturnsOnlyResolved

\* C16: once the rating operation has left Started the call eventually
\* returns, provided that from some time on no more messages arrive; and the
\* call never returns while the operation stays Started.
C16_ReturnsOnceArrivalsStop ==
    /\ (<>[][~MessagePosted(Caller)]_vars) => (PumpResolved ~> (pc[Caller] = "idle"))
    /\ PumpReturnsOnlyResolved

\* C16 witness: a rating call has returned after its operation completed,
\* with a message that arrived during the wait still in the queue.
C16_Witness ==
    /\ Returned(Caller, "request_rate_and_review")
    /\ operation[Caller].status = "Completed"
    /\ queue[Caller] > 0

\* the error slot value that the outcome of the last call of thread t
\* determines: the message of the failure thrown in it, or the message of the
\* check that ended it, or nothing
SlotOfOutcome(t) ==
    IF raised[t] # NoFailure
    THEN (IF raised[t].kind \in {"hresult", "std"} THEN raised[t].msg ELSE MsgUnknown)
    ELSE IF op[t] = "request_purchase"
            /\ (arg[t].storeId.isNull \/ arg[t].storeId.s = "")
    THEN MsgStoreIdBad
    ELSE IF ownerWindow[t] = NULL THEN MsgNoWindow
    ELSE IF operation[t] = [status |-> "Completed", result |-> NullResult]
    THEN NullResultMsg(op[t])
    ELSE ""

\* C17: every path through a store operation writes the calling thread's
\* error slot before it returns: whenever a store operation has returned, the
\* slot holds the value its own outcome determines, whatever the slot held
\* when the call began.
C17_SlotFollowsOutcome ==
    \A t \in Threads :
       pc[t] = "idle" /\ op[t] \in StoreOps => g_lastError[t] = SlotOfOutcome(t)

\* C17 witness: a rating call has returned for want of a foreground window,
\* with that message in the slot, on a thread on which an earlier call had
\* left the platform's failure message (since read into a buffer).
C17_Witness ==
    \E t \in Threads :
       /\ Returned(t, "request_rate_and_review")
       /\ ownerWindow[t] = NULL
       /\ g_lastError[t] = MsgNoWindow
       /\ \E b \in DOMAIN heap : heap[b] = HresultMsg

\* C18: in every store operation the first platform call is init_apartment,
\* made once, so the store context is fetched, the owner window bound and the
\* operation dispatched only after it; and a call entered on a thread whose
\* apartment is already single-threaded does not fail at init_apartment: it
\* leaves the apartment as it is and goes on to fetch the store context.
C18_ApartmentFirst ==
    [][\A t \in Threads :
         op'[t] \in StoreOps /\ trace'[t] # <<>> =>
            /\ trace'[t][1] = "init_apartment"
            /\ \A i \in 2..Len(trace'[t]) : trace'[t][i] # "init_apartment"
            /\ pc[t] = "idle" /\ apartment[t] = "STA" /\ vars' # vars =>
                  /\ Len(trace'[t]) >= 2 /\ trace'[t][2] = "GetDefault"
                  /\ apartment'[t] = "STA"
      ]_vars

\* C18 witness: a purchase has dispatched its operation, after init_apartment
\* and the other platform calls, on a thread whose apartment an earlier
\* license fetch had initialized.
C18_Witness ==
    \E t \in Threads :
       /\ pc[t] = "purchase_get" /\ operation[t].status = "Started"
       /\ trace[t] = <<"init_apartment", "GetDefault", "GetForegroundWindow",
                       "Initialize", "RequestPurchaseAsync">>
       /\ apartment[t] = "STA"
       /\ \E b \in DOMAIN heap : heap[b] \in JsonPayloads

\* C19: a buffer returned by get_license_json or get_last_error is a block
\* that no live buffer occupies, and it is the only block the step adds; the
\* text of a live buffer is changed by no step of any thread; and a buffer
\* stops being live only in a call of free with that buffer.
C19_BuffersAreSnapshots ==
    [][/\ \A b \in DOMAIN heap \cap DOMAIN heap' : heap'[b] = heap[b]
       /\ \A b \in DOMAIN heap \ DOMAIN heap' :
            \E t \in Threads : pc[t] = "idle" /\ op'[t] = "free" /\ arg'[t].ptr = b
       /\ \A t \in Threads :
            (msstore_winrt_get_last_error(t) \/ get_license_json_result(t))
            /\ ret'[t] \in Addrs =>
               /\ ret'[t] \notin DOMAIN heap
               /\ DOMAIN heap' = DOMAIN heap \cup {ret'[t]}
      ]_vars

\* C19 witness: a buffer still holds the message a thread read earlier, while
\* no error slot holds that message any more and a later get_last_error has
\* returned another live buffer with another text.
C19_Witness ==
    \E b \in DOMAIN heap, t \in Threads :
       /\ heap[b] = MsgLicenseNull
       /\ \A u \in Threads : g_lastError[u] # MsgLicenseNull
       /\ Returned(t, "get_last_error")
       /\ ret[t] \in DOMAIN heap \ {b}
       /\ heap[ret[t]] # heap[b]

====
